---- MODULE Spec2Model ----
(***************************************************************************)
(* Model of HW1/findPoints.py: the PointSelector session that lets an      *)
(* operator pick point correspondences on a side-by-side composite of two  *)
(* images.  The state is the PointSelector object's fields; the actions    *)
(* are the matplotlib callbacks onclick / onkey, the operator closing the  *)
(* window, get_points returning, and the steps of the batch driver main.   *)
(* Coordinates are taken on an integer grid of the composite.              *)
(***************************************************************************)
EXTENDS Integers, Sequences, FiniteSets, TLC

\* ---------------------------------------------------------------- bounds
\* largest configured num_points explored
MaxN == 2
\* width of the center (left) image, width of the other (right) image and
\* height of the composite, in grid units
W1 == 2
W2 == 2
H == 1

\* ---------------------------------------------------------------- state
VARIABLES
    num_points,   \* self.num_points
    w1,           \* self.w1 : width of the center image
    pts_center,   \* self.pts_center : list of (x, y)
    pts_other,    \* self.pts_other  : list of (x, y) in right-image coords
    click_state,  \* self.click_state: 0 = waiting left, 1 = waiting right
    fig_open,     \* the figure self.fig exists and delivers events
    title,        \* the axes title last set
    saves,        \* the data dicts written so far by save_results
    raised,       \* the last callback ended in an exception
    returned,     \* what get_points returned: << >> until it has
    main,         \* main's position: pc, loop index, sessions, messages
    loads,        \* which image files cv2.imread can decode
    event,        \* the event the last callback was invoked with
    prev          \* (pts_center, pts_other, click_state) before that callback

vars == <<num_points, w1, pts_center, pts_other, click_state, fig_open,
          title, saves, raised, returned, main, loads, event, prev>>

\* the variables of the batch driver
main_vars == <<main, loads>>

None == "None"

\* x / y data coordinates an in-axes click can carry
XData == 0 .. (W1 + W2 - 1)
YData == 0 .. (H - 1)

\* keys the operator may press: the two bound ones and one unbound
Keys == {"ctrl+z", "r", "a"}

\* main lines 167-168
center_path == "photos/center.jpg"
other_paths == <<"photos/img4.jpg", "photos/img5.jpg">>

\* os.path.splitext(os.path.basename(path))[0] on the paths above
Stem(path) ==
    CASE path = "photos/img4.jpg" -> "img4"
      [] path = "photos/img5.jpg" -> "img5"
      [] OTHER -> "center"

\* self.other_name of the session main is running
other_name == Stem(other_paths[main.idx])

\* the (pts_center, pts_other, click_state) triple of the object
Triple == [pts_center |-> pts_center, pts_other |-> pts_other,
           click_state |-> click_state]

\* ------------------------------------------------------------- helpers
\* list.pop(): the list without its last element
Pop(s) == SubSeq(s, 1, Len(s) - 1)

\* list.clear()
Clear(s) == << >>

\* float(v) of a number is the number itself
Float(v) == v + 0

\* list(map(float, pt))
FloatList(pt) == [i \in 1 .. Len(pt) |-> Float(pt[i])]

\* left-half test that takes the boundary column too
LeftHalfInclusive(x) == x <= w1

\* onclick line 49: click lies on the left (center) image
LeftHalf(x) == x < w1

\* right-half test that leaves the boundary column out
RightHalfExclusive(x) == x > w1

\* onclick line 56: click lies on the right (other) image
RightHalf(x) == x >= w1

\* right point stored in composite coordinates (no shift)
ShiftRightNone(x, y) == <<x, y>>

\* onclick line 58: shift into right-image coordinates
ShiftRight(x, y) == <<x - w1, y>>

\* stop test with > in place of >=
EnoughPairsStrict(c, o, n) == Len(c) > n /\ Len(o) > n

\* stop test one pair early
EnoughPairsEarly(c, o, n) == Len(c) >= n - 1 /\ Len(o) >= n - 1

\* onclick line 64: enough pairs selected
EnoughPairs(c, o, n) == Len(c) >= n /\ Len(o) >= n

\* the figure left open when the pairs are complete
PltCloseMissing == TRUE

\* onclick line 66: plt.close(self.fig) leaves the figure closed
PltClose == FALSE

\* redraw lines 107-108: the caption
Redraw(c, n) == [text |-> "Selected", count |-> Len(c), of |-> n]

\* the dict with points_other filled from pts_center
SaveResultsCenterTwice(c, o) ==
    [image_pair    |-> other_name,
     points_center |-> [i \in 1 .. Len(c) |-> FloatList(c[i])],
     points_other  |-> [i \in 1 .. Len(c) |-> FloatList(c[i])]]

\* save_results lines 114-118: the dict dumped to the json file
SaveResults(c, o) ==
    [image_pair    |-> other_name,
     points_center |-> [i \in 1 .. Len(c) |-> FloatList(c[i])],
     points_other  |-> [i \in 1 .. Len(o) |-> FloatList(o[i])]]

\* list.pop() raises IndexError on an empty list
PopRaises(s) == Len(s) = 0

\* ctrl+z whose pair branch is entered without the length test
UndoRaisesUnguarded(t) ==
    IF t.click_state = 1 /\ Len(t.pts_center) > 0
    THEN PopRaises(t.pts_center)
    ELSE IF t.click_state = 0
    THEN PopRaises(t.pts_other) \/ PopRaises(t.pts_center)
    ELSE FALSE

\* onkey lines 72-81: ctrl+z ends in an exception
UndoRaises(t) ==
    IF t.click_state = 1 /\ Len(t.pts_center) > 0
    THEN PopRaises(t.pts_center)
    ELSE IF t.click_state = 0 /\ Len(t.pts_other) > 0
    THEN PopRaises(t.pts_other) \/ PopRaises(t.pts_center)
    ELSE FALSE

\* ctrl+z whose pair branch pops pts_other only (line 78 missing)
UndoKeepLeft(t) ==
    IF t.click_state = 1 /\ Len(t.pts_center) > 0
    THEN [pts_center  |-> Pop(t.pts_center),
          pts_other   |-> t.pts_other,
          click_state |-> 0]
    ELSE IF t.click_state = 0 /\ Len(t.pts_other) > 0
    THEN [pts_center  |-> t.pts_center,
          pts_other   |-> Pop(t.pts_other),
          click_state |-> t.click_state]
    ELSE t

\* ctrl+z whose first branch leaves click_state alone (line 75 missing)
UndoKeepState(t) ==
    IF t.click_state = 1 /\ Len(t.pts_center) > 0
    THEN [pts_center  |-> Pop(t.pts_center),
          pts_other   |-> t.pts_other,
          click_state |-> t.click_state]
    ELSE IF t.click_state = 0 /\ Len(t.pts_other) > 0
    THEN [pts_center  |-> Pop(t.pts_center),
          pts_other   |-> Pop(t.pts_other),
          click_state |-> t.click_state]
    ELSE t

\* ctrl+z that pops the first element, pop(0), instead of the last
UndoPopFirst(t) ==
    IF t.click_state = 1 /\ Len(t.pts_center) > 0
    THEN [pts_center  |-> Tail(t.pts_center),
          pts_other   |-> t.pts_other,
          click_state |-> 0]
    ELSE IF t.click_state = 0 /\ Len(t.pts_other) > 0
    THEN [pts_center  |-> Tail(t.pts_center),
          pts_other   |-> Tail(t.pts_other),
          click_state |-> t.click_state]
    ELSE t

\* onkey lines 72-81: the effect of ctrl+z on the triple
Undo(t) ==
    IF t.click_state = 1 /\ Len(t.pts_center) > 0
    THEN [pts_center  |-> Pop(t.pts_center),
          pts_other   |-> t.pts_other,
          click_state |-> 0]
    ELSE IF t.click_state = 0 /\ Len(t.pts_other) > 0
    THEN [pts_center  |-> Pop(t.pts_center),
          pts_other   |-> Pop(t.pts_other),
          click_state |-> t.click_state]
    ELSE t

\* r that clears the lists but leaves click_state alone (line 88 missing)
ResetKeepState(t) ==
    [pts_center  |-> Clear(t.pts_center),
     pts_other   |-> Clear(t.pts_other),
     click_state |-> t.click_state]

\* onkey lines 86-88: the effect of r on the triple
Reset(t) ==
    [pts_center  |-> Clear(t.pts_center),
     pts_other   |-> Clear(t.pts_other),
     click_state |-> 0]

\* np.float32 of a grid coordinate: exact for integers below 2^24
Float32(v) == v + 0

\* np.array(pts, dtype=np.float32): one row per point
NpArray(pts) ==
    [i \in 1 .. Len(pts) |-> [j \in 1 .. Len(pts[i]) |-> Float32(pts[i][j])]]

\* get_points lines 157-158: the two arrays returned
GetPoints(c, o) == <<NpArray(c), NpArray(o)>>

\* --------------------------------------------------------------- Init
\* the event no callback has run with yet
NoEvent == [name |-> "none", inaxes |-> FALSE, xdata |-> None,
            ydata |-> None, key |-> None]

\* main while one pick_points call is running on other_paths[1]
InPickPoints == [pc |-> "picking", idx |-> 1, picked |-> << >>,
                 errors |-> << >>]

\* __init__ lines 8-41, for a pick_points call with any num_points
Init ==
    /\ num_points \in 1 .. MaxN
    /\ w1 = W1
    /\ raised = FALSE
    /\ returned = << >>
    /\ main = InPickPoints
    /\ loads = [p \in {center_path} \cup {other_paths[i] : i \in 1 .. 2}
                  |-> TRUE]
    /\ pts_center = << >>
    /\ pts_other = << >>
    /\ click_state = 0
    /\ fig_open = TRUE
    /\ title = [text |-> "Click LEFT image point, then RIGHT image point",
                count |-> 0, of |-> num_points]
    /\ saves = << >>
    /\ event = NoEvent
    /\ prev = [pts_center |-> << >>, pts_other |-> << >>, click_state |-> 0]

\* ------------------------------------------------------------- actions
\* the button_press_event values the canvas can deliver: inside the axes
\* with data coordinates, or outside them with none
ClickEvents ==
    [name : {"button_press_event"}, inaxes : {TRUE}, xdata : XData,
     ydata : YData, key : {None}]
    \cup
    [name : {"button_press_event"}, inaxes : {FALSE}, xdata : {None},
     ydata : {None}, key : {None}]

KeyEvents ==
    [name : {"key_press_event"}, inaxes : {FALSE}, xdata : {None},
     ydata : {None}, key : Keys]

\* onclick lines 43-67
onclick(ev) ==
    /\ fig_open
    /\ event' = ev
    /\ prev' = Triple
    /\ raised' = FALSE
    /\ UNCHANGED <<num_points, w1, returned, main_vars>>
    /\ IF ~ev.inaxes
       THEN UNCHANGED <<pts_center, pts_other, click_state, fig_open,
                        title, saves>>
       ELSE LET x == ev.xdata
                y == ev.ydata
            IN  IF click_state = 0 /\ LeftHalf(x)
                THEN /\ pts_center' = Append(pts_center, <<x, y>>)
                     /\ click_state' = 1
                     /\ title' = Redraw(pts_center', num_points)
                     /\ UNCHANGED <<pts_other, fig_open, saves>>
                ELSE IF click_state = 1 /\ RightHalf(x)
                THEN /\ pts_other' = Append(pts_other, ShiftRight(x, y))
                     /\ click_state' = 0
                     /\ title' = Redraw(pts_center, num_points)
                     /\ UNCHANGED pts_center
                     /\ IF EnoughPairs(pts_center, pts_other', num_points)
                        THEN /\ fig_open' = PltClose
                             /\ saves' = Append(saves,
                                     SaveResults(pts_center, pts_other'))
                        ELSE UNCHANGED <<fig_open, saves>>
                ELSE UNCHANGED <<pts_center, pts_other, click_state,
                                 fig_open, title, saves>>

\* onkey lines 69-90
onkey(ev) ==
    /\ fig_open
    /\ event' = ev
    /\ prev' = Triple
    /\ UNCHANGED <<num_points, w1, fig_open, saves, returned, main_vars>>
    /\ IF ev.key = "ctrl+z"
       THEN IF UndoRaises(Triple)
            THEN /\ raised' = TRUE
                 /\ UNCHANGED <<pts_center, pts_other, click_state, title>>
            ELSE LET t == Undo(Triple)
                 IN  /\ raised' = FALSE
                     /\ pts_center' = t.pts_center
                     /\ pts_other' = t.pts_other
                     /\ click_state' = t.click_state
                     /\ title' = Redraw(pts_center', num_points)
       ELSE IF ev.key = "r"
       THEN LET t == Reset(Triple)
            IN  /\ raised' = FALSE
                /\ pts_center' = t.pts_center
                /\ pts_other' = t.pts_other
                /\ click_state' = t.click_state
                /\ title' = Redraw(pts_center', num_points)
       ELSE /\ raised' = FALSE
            /\ UNCHANGED <<pts_center, pts_other, click_state, title>>

\* the operator closes the window: plt.show() in get_points returns
close_window ==
    /\ fig_open
    /\ fig_open' = FALSE
    /\ event' = [name |-> "close_event", inaxes |-> FALSE, xdata |-> None,
                 ydata |-> None, key |-> None]
    /\ prev' = Triple
    /\ UNCHANGED <<num_points, w1, pts_center, pts_other, click_state, title,
                   saves, raised, returned, main_vars>>

\* get_points lines 155-158: plt.show() has returned because the figure is
\* closed, and the two lists are handed back as arrays
get_points ==
    /\ ~fig_open
    /\ main.pc = "picking"
    /\ returned = << >>
    /\ returned' = GetPoints(pts_center, pts_other)
    /\ UNCHANGED <<num_points, w1, pts_center, pts_other, click_state,
                   fig_open, title, saves, raised, main_vars, event, prev>>

Next ==
    \/ \E ev \in ClickEvents : onclick(ev)
    \/ \E ev \in KeyEvents : onkey(ev)
    \/ close_window
    \/ get_points

Spec == Init /\ [][Next]_vars

\* ------------------------------------------------ a 400-wide composite
\* clicks on a composite whose center image is 400 wide: the two of the
\* worked example, the last left column and the boundary column
WideClickEvents ==
    [name : {"button_press_event"}, inaxes : {TRUE},
     xdata : {50, 399, 400, 430}, ydata : {60, 70}, key : {None}]

\* __init__ lines 8-41 with a center image of width 400
InitWide ==
    /\ num_points \in 1 .. MaxN
    /\ w1 = 400
    /\ raised = FALSE
    /\ returned = << >>
    /\ main = InPickPoints
    /\ loads = [p \in {center_path} \cup {other_paths[i] : i \in 1 .. 2}
                  |-> TRUE]
    /\ pts_center = << >>
    /\ pts_other = << >>
    /\ click_state = 0
    /\ fig_open = TRUE
    /\ title = [text |-> "Click LEFT image point, then RIGHT image point",
                count |-> 0, of |-> num_points]
    /\ saves = << >>
    /\ event = NoEvent
    /\ prev = [pts_center |-> << >>, pts_other |-> << >>, click_state |-> 0]

NextWide ==
    \/ \E ev \in WideClickEvents : onclick(ev)
    \/ \E ev \in KeyEvents : onkey(ev)
    \/ close_window
    \/ get_points

SpecWide == InitWide /\ [][NextWide]_vars

\* ----------------------------------------------------- the batch driver
\* the clicks explored in a batch run: one left column, the boundary
\* column, and a click outside the axes
MainClickEvents ==
    [name : {"button_press_event"}, inaxes : {TRUE}, xdata : {0, W1},
     ydata : {0}, key : {None}]
    \cup
    [name : {"button_press_event"}, inaxes : {FALSE}, xdata : {None},
     ydata : {None}, key : {None}]

\* main lines 166-168: main is entered; any of the three files may fail
\* to decode.  No PointSelector exists yet.
InitMain ==
    /\ loads \in [{center_path} \cup {other_paths[i] : i \in 1 .. 2}
                    -> BOOLEAN]
    /\ main = [pc |-> "imread_center", idx |-> 1, picked |-> << >>,
               errors |-> << >>]
    /\ num_points = 6
    /\ w1 = W1
    /\ raised = FALSE
    /\ returned = << >>
    /\ pts_center = << >>
    /\ pts_other = << >>
    /\ click_state = 0
    /\ fig_open = FALSE
    /\ title = [text |-> "Click LEFT image point, then RIGHT image point",
                count |-> 0, of |-> num_points]
    /\ saves = << >>
    /\ event = NoEvent
    /\ prev = [pts_center |-> << >>, pts_other |-> << >>, click_state |-> 0]

session_vars == <<num_points, w1, pts_center, pts_other, click_state,
                  fig_open, title, saves, raised, returned, event, prev>>

\* the loop abandoned at the first image that fails to load
AfterLoadFailureBreak(i) == [pc |-> "done", idx |-> i]

\* main line 179: continue with the next image
AfterLoadFailure(i) == [pc |-> "loop", idx |-> i + 1]

\* main lines 170-173
main_imread_center ==
    /\ main.pc = "imread_center"
    /\ IF loads[center_path]
       THEN main' = [main EXCEPT !.pc = "loop", !.idx = 1]
       ELSE main' = [main EXCEPT
                        !.pc = "done",
                        !.errors = Append(@, "Error: could not load center image.")]
    /\ UNCHANGED <<loads, session_vars>>

\* main lines 175-182 up to the construction of the PointSelector in
\* pick_points (line 162, __init__ lines 8-41)
main_loop ==
    /\ main.pc = "loop"
    /\ UNCHANGED <<loads, w1, saves>>
    /\ IF main.idx > Len(other_paths)
       THEN /\ main' = [main EXCEPT !.pc = "done"]
            /\ UNCHANGED <<num_points, pts_center, pts_other, click_state,
                           fig_open, title, raised, returned, event, prev>>
       ELSE IF ~loads[other_paths[main.idx]]
       THEN /\ main' = [main EXCEPT
                           !.pc = AfterLoadFailure(main.idx).pc,
                           !.idx = AfterLoadFailure(main.idx).idx,
                           !.errors = Append(@, other_paths[main.idx])]
            /\ UNCHANGED <<num_points, pts_center, pts_other, click_state,
                           fig_open, title, raised, returned, event, prev>>
       ELSE /\ main' = [main EXCEPT
                           !.pc = "picking",
                           !.picked = Append(@, other_paths[main.idx])]
            /\ num_points' = 6
            /\ pts_center' = << >>
            /\ pts_other' = << >>
            /\ click_state' = 0
            /\ fig_open' = TRUE
            /\ title' = [text |-> "Click LEFT image point, then RIGHT image point",
                         count |-> 0, of |-> 6]
            /\ raised' = FALSE
            /\ returned' = << >>
            /\ event' = NoEvent
            /\ prev' = [pts_center |-> << >>, pts_other |-> << >>,
                        click_state |-> 0]

\* main line 182: pick_points has returned, on to the next path
main_next ==
    /\ main.pc = "picking"
    /\ Len(returned) = 2
    /\ main' = [main EXCEPT !.pc = "loop", !.idx = @ + 1]
    /\ returned' = << >>
    /\ UNCHANGED <<loads, num_points, w1, pts_center, pts_other,
                   click_state, fig_open, title, saves, raised, event, prev>>

NextMain ==
    \/ main_imread_center
    \/ main_loop
    \/ \E ev \in MainClickEvents : onclick(ev)
    \/ \E ev \in KeyEvents : onkey(ev)
    \/ close_window
    \/ get_points
    \/ main_next

SpecMain == InitMain /\ [][NextMain]_vars

\* number of committed pairs
Min(a, b) == IF a <= b THEN a ELSE b
Committed == Min(Len(pts_center), Len(pts_other))

\* ===================================================================
\* Properties
\* ===================================================================
EmptyTriple == [pts_center |-> << >>, pts_other |-> << >>, click_state |-> 0]

\* the callback that just ran was onclick with an in-axes click
ClickedInAxes == event.name = "button_press_event" /\ event.inaxes

\* the step delivers an in-axes click
ClickStep == event'.name = "button_press_event" /\ event'.inaxes

\* the step delivers an in-axes click that the current cursor accepts
AcceptedLeftStep == ClickStep /\ click_state = 0 /\ event'.xdata < W1
AcceptedRightStep == ClickStep /\ click_state = 1 /\ event'.xdata >= W1

\* the step delivers an in-axes click on the half the cursor does not expect
WrongHalfStep ==
    /\ ClickStep
    /\ \/ click_state = 0 /\ event'.xdata >= W1
       \/ click_state = 1 /\ event'.xdata < W1

\* the callback that just ran was onclick, and it accepted a left / right
\* click (prev is the triple it started from)
AcceptedLeft == ClickedInAxes /\ prev.click_state = 0 /\ event.xdata < W1
AcceptedRight == ClickedInAxes /\ prev.click_state = 1 /\ event.xdata >= W1

UndoStep == event'.name = "key_press_event" /\ event'.key = "ctrl+z"
ResetStep == event'.name = "key_press_event" /\ event'.key = "r"

\* C1: after every event the left sequence is as long as the right one or
\* one longer.
C1_LengthDifference == Len(pts_center) - Len(pts_other) \in {0, 1}

\* a left click was accepted behind a committed pair and is pending
C1_Witness ==
    /\ AcceptedLeft
    /\ Len(pts_other) >= 1
    /\ Len(pts_center) = Len(pts_other) + 1

\* C2: click_state is 1 exactly when the left sequence is longer than the
\* right one, and 0 exactly when the two have the same length.
C2_CursorConsistent ==
    /\ click_state = 1 <=> Len(pts_center) > Len(pts_other)
    /\ click_state = 0 <=> Len(pts_center) = Len(pts_other)

\* back to waiting-left with one pair after undoing a pending left point
C2_Witness ==
    /\ event.name = "key_press_event"
    /\ event.key = "ctrl+z"
    /\ prev.click_state = 1
    /\ click_state = 0
    /\ Len(pts_center) = 1
    /\ Len(pts_other) = 1

\* C3 as stated: ctrl+z right after any in-axes click of a session still
\* running restores the triple held before that click, whenever that
\* triple was not the empty initial one.
C3_UndoRestoresAfterAnyClick ==
    [][(ClickedInAxes /\ UndoStep /\ prev # EmptyTriple)
          => Triple' = prev]_vars

\* C3 (amended): ctrl+z right after an accepted left-half click restores
\* the triple held before that click (the empty one included); right after
\* an accepted right-half click it removes the whole pair, that is the
\* prior triple without its pending left point and waiting for a left click.
C3_UndoAfterAcceptedClick ==
    [][UndoStep =>
          /\ AcceptedLeft => Triple' = prev
          /\ AcceptedRight =>
                Triple' = [pts_center  |-> Pop(prev.pts_center),
                           pts_other   |-> prev.pts_other,
                           click_state |-> 0]]_vars

\* a left click accepted behind a committed pair has just been undone
C3_Witness ==
    /\ event.name = "key_press_event"
    /\ event.key = "ctrl+z"
    /\ prev.click_state = 1
    /\ Len(prev.pts_center) = 2
    /\ Len(prev.pts_other) = 1
    /\ click_state = 0
    /\ pts_center = Pop(prev.pts_center)
    /\ pts_other = prev.pts_other

\* C4: an in-axes click on the half the cursor does not expect changes
\* neither sequence nor the cursor, and neither closes the figure nor
\* saves anything.
C4_WrongHalfIgnored ==
    [][WrongHalfStep =>
          /\ Triple' = Triple
          /\ fig_open' = fig_open
          /\ saves' = saves]_vars

\* a left-half click was delivered while a right point was awaited
C4_Witness ==
    /\ ClickedInAxes
    /\ prev.click_state = 1
    /\ event.xdata < W1
    /\ Triple = prev
    /\ Len(pts_other) >= 1

\* C5: once num_points pairs are committed, no later step changes the
\* sequences or the cursor.
C5_TerminalFrozen ==
    [][Committed >= num_points => Triple' = Triple]_vars

\* the last pair of a two-pair session is committed and the figure closed
C5_Witness ==
    /\ num_points = 2
    /\ Committed = num_points
    /\ AcceptedRight
    /\ ~fig_open

\* C6: the number of committed pairs never exceeds num_points.
C6_CommittedAtMostN == num_points >= 1 => Committed <= num_points

\* the target count is reached
C6_Witness ==
    /\ num_points >= 1
    /\ Committed = num_points
    /\ Len(saves) = 1

\* C7: the dict save_results dumps has equally long point lists, holds
\* exactly the committed pairs with no pending left point, and its i-th
\* entries are the i-th left and right point of the object, the last pair
\* being the one the click just completed.
C7_SavedPairs ==
    [][Len(saves') > Len(saves) =>
          LET d == saves'[Len(saves')]
              n == Len(d.points_center)
          IN  /\ Len(d.points_other) = n
              /\ n = Len(pts_other')
              /\ Len(pts_center') = n
              /\ click_state' = 0
              /\ \A i \in 1 .. n :
                    /\ d.points_center[i] = pts_center'[i]
                    /\ d.points_other[i] = pts_other'[i]
              /\ d.points_center[n] = pts_center[Len(pts_center)]
              /\ d.points_other[n] = <<event'.xdata - W1, event'.ydata>>]_vars

\* a record of two pairs has been written
C7_Witness ==
    /\ Len(saves) = 1
    /\ Len(saves[1].points_center) = 2
    /\ Len(saves[1].points_other) = 2
    /\ saves[1].points_center[1] # saves[1].points_center[2]

\* C8: the r key leaves both sequences empty and the cursor waiting for a
\* left click, whatever the state before.
C8_ResetYieldsEmpty ==
    [][ResetStep => Triple' = EmptyTriple]_vars

\* r was pressed while a left point was pending behind a committed pair
C8_Witness ==
    /\ event.name = "key_press_event"
    /\ event.key = "r"
    /\ prev.click_state = 1
    /\ Len(prev.pts_other) >= 1
    /\ Triple = EmptyTriple

\* C9: an in-axes click at x = w1 is a right-half click: while a right
\* point is awaited it is appended to pts_other with x-coordinate 0, and
\* while a left point is awaited it is ignored.
C9_BoundaryIsRight ==
    [][(ClickStep /\ event'.xdata = W1) =>
          /\ click_state = 1 =>
                /\ pts_other' = Append(pts_other, <<0, event'.ydata>>)
                /\ pts_center' = pts_center
                /\ click_state' = 0
          /\ click_state = 0 => Triple' = Triple]_vars

\* a boundary click has been taken as the right point of the second pair
C9_Witness ==
    /\ AcceptedRight
    /\ event.xdata = W1
    /\ Len(pts_other) = 2
    /\ pts_other[2] = <<0, event.ydata>>

\* C10: an accepted left-half click (x, y) appends exactly (x, y) to
\* pts_center and leaves pts_other as it was; an accepted right-half click
\* appends exactly (x - w1, y) to pts_other and leaves pts_center as it
\* was; the earlier entries of both sequences stay.
C10_AppendExact ==
    [][/\ AcceptedLeftStep =>
             /\ pts_center' = pts_center \o <<(<<event'.xdata, event'.ydata>>)>>
             /\ pts_other' = pts_other
       /\ AcceptedRightStep =>
             /\ pts_other' =
                   pts_other \o <<(<<event'.xdata - W1, event'.ydata>>)>>
             /\ pts_center' = pts_center]_vars

\* a right click off the boundary was appended behind an earlier pair
C10_Witness ==
    /\ AcceptedRight
    /\ event.xdata > W1
    /\ Len(pts_other) = 2
    /\ pts_other[2] = <<event.xdata - W1, event.ydata>>
    /\ pts_other[1] = prev.pts_other[1]
    /\ pts_center = prev.pts_center

\* the step delivers an in-axes click at (x, y)
ClickAt(x, y) == ClickStep /\ event'.xdata = x /\ event'.ydata = y

\* C11: on a composite with w1 = 400, a click at (50, 60) in the empty
\* state gives pts_center = [(50, 60)] and click_state 1; a click at
\* (430, 70) then gives pts_other = [(30, 70)], click_state 0 and one
\* committed pair; ctrl+z then empties both lists with click_state 0; and
\* with num_points = 1 the two clicks close the figure and the record
\* written has points_center = [[50, 60]] and points_other = [[30, 70]].
C11_WorkedExample ==
    [][/\ (Triple = EmptyTriple /\ ClickAt(50, 60)) =>
             Triple' = [pts_center  |-> <<(<<50, 60>>)>>,
                        pts_other   |-> << >>,
                        click_state |-> 1]
       /\ (/\ Triple = [pts_center  |-> <<(<<50, 60>>)>>,
                        pts_other   |-> << >>,
                        click_state |-> 1]
           /\ ClickAt(430, 70)) =>
             /\ Triple' = [pts_center  |-> <<(<<50, 60>>)>>,
                           pts_other   |-> <<(<<30, 70>>)>>,
                           click_state |-> 0]
             /\ Committed' = 1
             /\ num_points = 1 =>
                   /\ ~fig_open'
                   /\ saves' = <<[image_pair    |-> "img4",
                                  points_center |-> <<(<<50, 60>>)>>,
                                  points_other  |-> <<(<<30, 70>>)>>]>>
       /\ (/\ Triple = [pts_center  |-> <<(<<50, 60>>)>>,
                        pts_other   |-> <<(<<30, 70>>)>>,
                        click_state |-> 0]
           /\ UndoStep) =>
             Triple' = EmptyTriple]_vars

\* with num_points = 1 the two clicks of the example have ended the session
\* and the record is written
C11_Witness ==
    /\ w1 = 400
    /\ num_points = 1
    /\ ~fig_open
    /\ event.name = "button_press_event"
    /\ event.xdata = 430
    /\ event.ydata = 70
    /\ prev.pts_center = <<(<<50, 60>>)>>
    /\ Len(saves) = 1
    /\ saves[1].points_center = <<(<<50, 60>>)>>
    /\ saves[1].points_other = <<(<<30, 70>>)>>

\* C12: once save_results has written the record, no later step changes
\* the sequences or the cursor.
C12_NoMutationAfterSave ==
    [][Len(saves) > 0 => Triple' = Triple]_vars

\* the record is written and get_points has returned the same points
C12_Witness ==
    /\ Len(saves) = 1
    /\ ~fig_open
    /\ Len(returned) = 2
    /\ Len(returned[1]) = num_points
    /\ Len(pts_center) = num_points

\* C13 as stated: the count the caption shows after a redraw is the number
\* of committed pairs.
C13_CaptionCountsPairs ==
    title.text = "Selected" => title.count = Committed

\* the other paths that decode, in the order of other_paths
LoadablePaths == SelectSeq(other_paths, LAMBDA p : loads[p])
FailingPaths == SelectSeq(other_paths, LAMBDA p : ~loads[p])

\* C14 as stated: whichever source image fails to load, the run goes on to
\* the end of the list and every path that loads gets its session.
C14_NoLoadFailureIsFatal ==
    main.pc = "done" =>
        /\ main.idx > Len(other_paths)
        /\ main.picked = LoadablePaths

\* C14 (amended): when the center image loads, every other image that
\* fails to load is reported and skipped and every one that loads gets its
\* session, in order; when the center image fails to load, that is
\* reported and the run ends without any session.
C14_LoadFailureSkipsSession ==
    main.pc = "done" =>
        IF loads[center_path]
        THEN /\ main.picked = LoadablePaths
             /\ main.errors = FailingPaths
        ELSE /\ main.picked = << >>
             /\ main.errors = <<"Error: could not load center image.">>

\* the first image failed to load and the second one had its session
C14_Witness ==
    /\ main.pc = "done"
    /\ loads[center_path]
    /\ ~loads[other_paths[1]]
    /\ loads[other_paths[2]]
    /\ main.picked = <<other_paths[2]>>
    /\ main.errors = <<other_paths[1]>>

\* C15: a session whose figure is closed before num_points pairs are
\* committed was closed by the operator, has written no record and has
\* raised nothing, whatever points were selected.
C15_CloseDiscards ==
    (~fig_open /\ Committed < num_points) =>
        /\ event.name = "close_event"
        /\ saves = << >>
        /\ ~raised

\* the window was closed on one pair and a pending left point, and
\* get_points has returned
C15_Witness ==
    /\ event.name = "close_event"
    /\ ~fig_open
    /\ Len(pts_center) = 2
    /\ Len(pts_other) = 1
    /\ saves = << >>
    /\ Len(returned) = 2

\* C16: save_results runs at most once, only in the step that accepts the
\* right-half click completing pair number num_points, and then exactly
\* num_points pairs are committed.
C16_SaveOnceAtN ==
    [][saves' # saves =>
          /\ saves = << >>
          /\ Len(saves') = 1
          /\ AcceptedRightStep
          /\ Committed = num_points - 1
          /\ Committed' = num_points]_vars

\* the second pair of a two-pair session was just accepted and saved
C16_Witness ==
    /\ num_points = 2
    /\ AcceptedRight
    /\ Len(prev.pts_other) = 1
    /\ Len(saves) = 1
    /\ Len(saves[1].points_other) = 2
    /\ returned = << >>

\* s without its last element equals t
IsAllButLast(t, s) ==
    /\ Len(s) >= 1
    /\ Len(t) = Len(s) - 1
    /\ \A i \in 1 .. Len(t) : t[i] = s[i]

\* C17: ctrl+z while waiting for a left click with at least one committed
\* pair removes exactly the last element of both lists and leaves
\* click_state 0; ctrl+z while waiting for a right click removes exactly
\* the last element of pts_center, leaves pts_other alone and sets
\* click_state to 0.
C17_UndoRemovesLast ==
    [][UndoStep =>
          /\ (click_state = 0 /\ Committed >= 1) =>
                /\ IsAllButLast(pts_center', pts_center)
                /\ IsAllButLast(pts_other', pts_other)
                /\ click_state' = 0
          /\ click_state = 1 =>
                /\ IsAllButLast(pts_center', pts_center)
                /\ pts_other' = pts_other
                /\ click_state' = 0]_vars

\* a pending left point, different from the committed one before it, was
\* undone and the committed pair is still there
C17_Witness ==
    /\ event.name = "key_press_event"
    /\ event.key = "ctrl+z"
    /\ prev.click_state = 1
    /\ Len(prev.pts_center) = 2
    /\ prev.pts_center[1] # prev.pts_center[2]
    /\ pts_center = <<prev.pts_center[1]>>
    /\ pts_other = prev.pts_other
    /\ Len(pts_other) = 1
    /\ click_state = 0

\* C18: ctrl+z in the empty state changes nothing, raises nothing, and
\* neither closes the figure nor writes a record.
C18_EmptyUndoNoOp ==
    [][(UndoStep /\ Triple = EmptyTriple) =>
          /\ Triple' = EmptyTriple
          /\ ~raised'
          /\ fig_open'
          /\ saves' = saves]_vars

\* ctrl+z was pressed in the empty state
C18_Witness ==
    /\ event.name = "key_press_event"
    /\ event.key = "ctrl+z"
    /\ prev = EmptyTriple
    /\ Triple = EmptyTriple
    /\ ~raised
    /\ fig_open

\* ctrl+z applied k times
RECURSIVE UndoTimes(_, _)
UndoTimes(t, k) == IF k = 0 THEN t ELSE UndoTimes(Undo(t), k - 1)

\* C19: wherever ctrl+z is pressed with pts_center not empty it shortens
\* pts_center by exactly one, and from that state as many ctrl+z as
\* pts_center has elements give what r gives: both lists empty and
\* click_state 0.
C19_UndoAllIsReset ==
    [][UndoStep =>
          /\ Len(pts_center) > 0 => Len(pts_center') = Len(pts_center) - 1
          /\ UndoTimes(Triple, Len(pts_center)) = Reset(Triple)
          /\ UndoTimes(Triple, Len(pts_center)) = EmptyTriple]_vars

\* ctrl+z was pressed on one pair and a pending left point
C19_Witness ==
    /\ event.name = "key_press_event"
    /\ event.key = "ctrl+z"
    /\ prev.click_state = 1
    /\ Len(prev.pts_center) = 2
    /\ Len(prev.pts_other) = 1
    /\ Len(pts_center) = 1
    /\ fig_open

\* C20 as stated: the two arrays get_points returns have the same length.
C20_ReturnedEqualLength ==
    Len(returned) = 2 => Len(returned[1]) = Len(returned[2])

====
